---- MODULE Spec2Model ----
(***************************************************************************)
(* Model of createAgent / agent.invoke of the agent-typing repository.     *)
(*                                                                         *)
(* The repository holds two copies of createAgent whose invoke processes   *)
(* the middlewares: src/agent.ts:222-299 and src/unnamed/part_000:610-712. *)
(* They differ in one place, the treatment of the caller's context         *)
(* (part_000:653 parses it against the merged context schema, agent.ts:253 *)
(* stores it as given), and in stateSchema being optional in part_000.     *)
(* The variable build says which copy runs.                                *)
(*                                                                         *)
(* JavaScript objects are functions from key strings to values; an absent  *)
(* key stands for undefined.                                               *)
(***************************************************************************)
EXTENDS Integers, Sequences, FiniteSets, TLC

\* ---------------------------------------------------------------- bounds
\* Longest middleware list of a configuration.
MaxMiddlewares == 2

\* ------------------------------------------------------- values and errors
EmptyObject == [k \in {} |-> 0]

\* new BaseMessage(role, content)
BaseMessage(role, content) == [role |-> role, content |-> content]

\* The subclasses overwrite content with '' in their field initialisers.
ToolMessage(role, content) == [role |-> role, content |-> "", type |-> "tool", name |-> "tool name"]

AssistantMessage(role, content) == [role |-> role, content |-> "", type |-> "assistant"]

AIMessage(role, content) == [role |-> role, content |-> "", type |-> "ai"]

\* A thrown or carried error value.
Error(name, message, issues) == [name |-> name, message |-> message, issues |-> issues]

MiddlewareBError == Error("Error", "middleware B terminated", {})

TypeErrorNotAFunction(method) == Error("TypeError", method, {})

\* What a call evaluates to: undefined, a value, or a throw.
Undefined == [ret |-> "undefined"]

Value(v) == [ret |-> "value", val |-> v]

Throw(e) == [ret |-> "throw", err |-> e]

\* { ...a, ...b } and Object.assign(a, b): the keys of b override those of a.
SpreadEarlierWins(a, b) == [k \in DOMAIN a \cup DOMAIN b |-> IF k \in DOMAIN a THEN a[k] ELSE b[k]]

Spread(a, b) == [k \in DOMAIN a \cup DOMAIN b |-> IF k \in DOMAIN b THEN b[k] ELSE a[k]]

\* ------------------------------------------------------------ zod schemas
\* A field specification: z.<type>() with or without .default(d).
Field(type, hasDefault, default) == [type |-> type, hasDefault |-> hasDefault, default |-> default]

Required(type) == Field(type, FALSE, "")

\* z.<type>().optional(): the field may be absent, and stays absent.
Optional(type) == [type |-> type, hasDefault |-> FALSE, default |-> "", optional |-> TRUE]

IsOptional(field) == "optional" \in DOMAIN field

\* Context values are written as strings; their JavaScript type is read off here.
Conforms(type, v) ==
    CASE type = "string" -> v \in {"John", "USA", "u1", "a"}
      [] type = "number" -> v \in {"0", "10", "30", "42"}
      [] type = "boolean" -> v \in {"true", "false"}
      [] type = "enum" -> v \in {"a", "b", "c"}
      [] type = "any" -> TRUE

\* The fields of a z.object for which parse(input) reports an issue.
Issues(schema, input) ==
    {f \in DOMAIN schema :
        IF f \in DOMAIN input THEN ~Conforms(schema[f].type, input[f])
        ELSE ~schema[f].hasDefault /\ ~IsOptional(schema[f])}

\* z.object(shape).parse(input): throws a ZodError naming the fields at fault,
\* otherwise returns the schema's keys only (unknown keys are stripped), with
\* the default in place of every missing field that has one.
parse(schema, input) ==
    IF Issues(schema, input) # {}
    THEN Throw(Error("ZodError", "invalid", Issues(schema, input)))
    ELSE Value([f \in {g \in DOMAIN schema : g \in DOMAIN input \/ schema[g].hasDefault} |->
                   IF f \in DOMAIN input THEN input[f] ELSE schema[f].default])

\* a.merge(b): the shape { ...a.shape, ...b.shape }.
merge(a, b) == Spread(a, b)

\* The number a context value stands for; a value outside reads as NaN.
NumberOf == ("0" :> 0) @@ ("10" :> 10) @@ ("30" :> 30) @@ ("42" :> 42)

\* n > v as JavaScript evaluates it for a context value v: false when v is
\* absent (undefined) or not a number.
GreaterThan(n, context, field) ==
    /\ field \in DOMAIN context
    /\ context[field] \in DOMAIN NumberOf
    /\ n > NumberOf[context[field]]

\* ---------------------------------------------------------- control actions
\* An optional parameter: undefined when the caller left it out, Some(v) otherwise.
undefined == <<>>

Some(v) == <<v>>

\* The property k of an object literal; a property holding undefined reads the
\* same as an absent one and is left out.
Prop(k, opt) == IF Len(opt) = 0 THEN EmptyObject ELSE (k :> opt[1])

\* createControls().jumpTo(target, stateUpdate)
jumpTo(target, stateUpdate) ==
    [type |-> "jump", target |-> target] @@ Prop("stateUpdate", stateUpdate)

\* createControls().terminate(result, error): error is its own, second parameter.
terminate(result, error) ==
    [type |-> "terminate"] @@ Prop("result", result) @@ Prop("error", error)

\* createControls().retry(stateUpdate)
retry(stateUpdate) ==
    [type |-> "retry"] @@ Prop("stateUpdate", stateUpdate)

\* The methods of the object createControls() returns.
createControls == {"jumpTo", "terminate", "retry"}

\* The controls object invoke hands to every hook: {} as Controls<FullState>.
invokeControls == {}

\* controls.<method>(a, b) as a hook evaluates it.
CallControls(controls, method, a, b) ==
    IF method \notin controls THEN Throw(TypeErrorNotAFunction(method))
    ELSE CASE method = "jumpTo" -> Value(jumpTo(a[1], b))
           [] method = "terminate" -> Value(terminate(a, b))
           [] method = "retry" -> Value(retry(a))

\* result && typeof result === 'object' && 'type' in result
IsControlActionByTarget(result) == result.ret = "value" /\ "target" \in DOMAIN result.val

IsControlAction(result) == result.ret = "value" /\ "type" \in DOMAIN result.val

\* ------------------------------------------------------- array operations
Min(a, b) == IF a < b THEN a ELSE b

Max(a, b) == IF a > b THEN a ELSE b

\* The position a relative index of Array.prototype.slice stands for: a
\* negative index counts from the end, and both ends are clamped.
SliceIndex(s, i) == IF i < 0 THEN Max(Len(s) + i, 0) ELSE Min(i, Len(s))

\* s.slice(start, end)
slice(s, start, end) == SubSeq(s, SliceIndex(s, start) + 1, SliceIndex(s, end))

\* s.slice(start): -0 is 0, so slice(-0) is the whole array.
sliceFrom(s, start) == slice(s, start, Len(s))

\* content.substring(0, n)
substring(content, n) == SubSeq(content, 1, Min(Max(n, 0), Len(content)))

\* options.systemMessage || '': a text is the sequence of its parts, '' has none.
SystemMessageOf(options) ==
    IF "systemMessage" \in DOMAIN options THEN options["systemMessage"] ELSE <<>>

\* state.messages.at(-1)?.content || ''
LastContent(messages) == IF Len(messages) = 0 THEN "" ELSE messages[Len(messages)].content

\* ------------------------------------------------- reflectionMiddleware
\* runtime.context.reflection?.enabled
ReflectionEnabled(context) ==
    /\ "reflection" \in DOMAIN context
    /\ "enabled" \in DOMAIN context["reflection"]
    /\ context["reflection"]["enabled"]

\* runtime.context.reflection?.maxIterations ?? 0
MaxIterationsOf(context) ==
    IF "reflection" \in DOMAIN context /\ "maxIterations" \in DOMAIN context["reflection"]
    THEN context["reflection"]["maxIterations"] ELSE 0

\* runtime.context.reflection.reflectionPrompt || `You are a teacher ...`
ReflectionPromptOf(context) ==
    IF "reflectionPrompt" \in DOMAIN context["reflection"]
    THEN <<context["reflection"]["reflectionPrompt"]>>
    ELSE <<"You are a teacher reviewing a student's response.">>

\* --------------------------------------------------- trustcallMiddleware
\* applyJsonPatches(target, patches) from patch k on, for the operations add,
\* replace and remove on a top-level key (a path of one part); any other
\* operation leaves the object as it is.
RECURSIVE ApplyFrom(_, _, _)
ApplyFrom(result, patches, k) ==
    IF k > Len(patches) THEN result
    ELSE LET patch == patches[k]
             lastKey == patch.path[Len(patch.path)]
         IN  IF patch.op \in {"add", "replace"}
             THEN ApplyFrom(Spread(result, lastKey :> patch.value), patches, k + 1)
             ELSE IF patch.op = "remove"
             THEN ApplyFrom([f \in DOMAIN result \ {lastKey} |-> result[f]], patches, k + 1)
             ELSE ApplyFrom(result, patches, k + 1)

applyJsonPatches(target, patches) == ApplyFrom(target, patches, 1)

\* lastMessage.content.match(/\[[\s\S]*\]/) followed by JSON.parse of the
\* match, for the contents an assistant message of the model carries:
\* undefined without a bracketed part, a throw when it is not JSON, else the
\* patch operations it lists.
JsonPatchesIn(content) ==
    CASE content = "[fix]" ->
            Value(<<[op |-> "replace", path |-> <<"frequency">>, value |-> "a"]>>)
      [] content = "[keep]" ->
            Value(<<[op |-> "add", path |-> <<"types">>, value |-> "a"]>>)
      [] content = "[oops]" -> Throw(Error("SyntaxError", "JSON.parse", {}))
      [] OTHER -> Undefined

\* toolError.error?.includes('validation') || includes('required') || includes('invalid')
IsValidationError(error) == error \in {"validation failed", "field required", "invalid value"}

\* The entries of a sequence that satisfy a test, in order: filter.
RECURSIVE FilterErrors(_, _)
FilterErrors(toolResults, k) ==
    IF k > Len(toolResults) THEN <<>>
    ELSE IF toolResults[k].error # ""
         THEN <<toolResults[k]>> \o FilterErrors(toolResults, k + 1)
         ELSE FilterErrors(toolResults, k + 1)

\* runtime.toolCalls.find(tc => tc.id === id)
FindCall(toolCalls, id) ==
    LET matching == {i \in 1..Len(toolCalls) : toolCalls[i].id = id}
    IN  IF matching = {} THEN undefined
        ELSE Some(toolCalls[CHOOSE i \in matching : \A j \in matching : i <= j])

\* The first tool error of the loop `for (const toolError of toolErrors)` from
\* k on that has its tool call and reads as a validation error.
RECURSIVE FirstValidationError(_, _, _)
FirstValidationError(toolErrors, toolCalls, k) ==
    IF k > Len(toolErrors) THEN undefined
    ELSE IF /\ Len(FindCall(toolCalls, toolErrors[k].id)) > 0
            /\ IsValidationError(toolErrors[k].error)
         THEN Some(toolErrors[k])
         ELSE FirstValidationError(toolErrors, toolCalls, k + 1)

\* state.validationAttempts.filter(a => a.toolCallId === id).pop()
LastAttemptOf(validationAttempts, id) ==
    LET matching == {i \in 1..Len(validationAttempts) : validationAttempts[i].toolCallId = id}
    IN  IF matching = {} THEN undefined
        ELSE Some(validationAttempts[CHOOSE i \in matching : \A j \in matching : j <= i])

\* { isRetrying: false, currentAttempt: 0 }
RetryStateReset == [isRetrying |-> FALSE, currentAttempt |-> 0]

\* ------------------------------------------------------- swarmMiddleware
AgentTypes == {"coordinator", "researcher", "coder", "reviewer"}

\* AGENT_DEFINITIONS[agent].canHandoffTo
CanHandoffTo(agent) ==
    CASE agent = "coordinator" -> {"researcher", "coder", "reviewer"}
      [] agent = "researcher" -> {"coordinator", "coder"}
      [] agent = "coder" -> {"coordinator", "reviewer"}
      [] agent = "reviewer" -> {"coordinator", "coder"}

\* content.match(/HANDOFF_TO:\s*(\w+)\s*\nREASON:\s*(.+)/) with the target in
\* lower case, for the contents an assistant message of the model carries:
\* undefined when the content holds no handoff directive.
HandoffIn(content) ==
    CASE content = "HANDOFF_TO: researcher REASON: r" -> Some([target |-> "researcher", reason |-> "r"])
      [] content = "HANDOFF_TO: Coder REASON: r" -> Some([target |-> "coder", reason |-> "r"])
      [] content = "HANDOFF_TO: reviewer REASON: r" -> Some([target |-> "reviewer", reason |-> "r"])
      [] content = "HANDOFF_TO: coordinator REASON: r" -> Some([target |-> "coordinator", reason |-> "r"])
      [] content = "HANDOFF_TO: manager REASON: r" -> Some([target |-> "manager", reason |-> "r"])
      [] OTHER -> undefined

\* lastMessage instanceof AIMessage
IsAIMessage(message) == "type" \in DOMAIN message /\ message.type = "ai"

\* state.handoffHistory.length >= runtime.context.maxHandoffs
HandoffLimitReachedLate(handoffHistory, maxHandoffs) == Len(handoffHistory) > maxHandoffs

HandoffLimitReached(handoffHistory, maxHandoffs) == Len(handoffHistory) >= maxHandoffs

\* ------------------------------------------------------------------ hooks
\* limitations.find(limitation => limitation.targetTool === toolCalls[0]?.name):
\* the first entry for the tool of the first call, undefined without one.
FindLimitation(limitations, toolCalls) ==
    LET matching == {i \in 1..Len(limitations) :
                        Len(toolCalls) > 0 /\ limitations[i].targetTool = toolCalls[1].name}
    IN  IF matching = {} THEN undefined
        ELSE Some(limitations[CHOOSE i \in matching : \A j \in matching : i <= j])

\* for (const call of toolCalls) if (call.name === targetTool)
\*     updatedCounts[targetTool] = (updatedCounts[targetTool] || 0) + 1
\* from call k on; targetTool is undefined when no limitation was found.
RECURSIVE CountCalls(_, _, _, _)
CountCalls(updatedCounts, toolCalls, targetTool, k) ==
    IF k > Len(toolCalls) THEN updatedCounts
    ELSE IF Len(targetTool) > 0 /\ toolCalls[k].name = targetTool[1]
         THEN CountCalls(
                Spread(updatedCounts,
                       targetTool[1] :> (IF targetTool[1] \in DOMAIN updatedCounts
                                         THEN updatedCounts[targetTool[1]] ELSE 0) + 1),
                toolCalls, targetTool, k + 1)
         ELSE CountCalls(updatedCounts, toolCalls, targetTool, k + 1)

\* The hooks of the middlewares of the repository (and of the two-middleware
\* scenario of the specification), by name.  Each is what the hook's body
\* evaluates to for the state, runtime and controls it is called with.
CallHook(hook, state, runtime, controls) ==
    CASE hook = "middlewareA.beforeModel" ->
            CallControls(controls, "jumpTo", Some("tools"),
                Some("messages" :> Append(state["messages"], ToolMessage("user", "tool call"))))
      [] hook = "middlewareA.afterModel" ->
            CallControls(controls, "jumpTo", Some("model"),
                Some("messages" :> Append(state["messages"], AssistantMessage("assistant", "assistant message"))))
      [] hook = "middlewareB.beforeModel" ->
            CallControls(controls, "terminate",
                Some("messages" :> Append(state["messages"], AIMessage("assistant", "assistant message"))),
                undefined)
      [] hook = "middlewareB.afterModel" ->
            CallControls(controls, "terminate", Some(MiddlewareBError), undefined)
      [] hook = "void" -> Undefined
      [] hook = "absent" -> Throw(TypeErrorNotAFunction("beforeModel"))
      [] hook = "returnState" -> Value(state)
      [] hook = "M1.beforeModel" -> Value("count" :> state["count"] + 1)
      [] hook = "M2.beforeModel" ->
            CallControls(controls, "terminate", Some("count" :> 99), undefined)
      [] hook = "terminateResult" -> Value(terminate(Some("count" :> 99), undefined))
      [] hook = "terminateError" -> Value(terminate(undefined, Some(MiddlewareBError)))
      [] hook = "terminateErrorAsResult" -> Value(terminate(Some(MiddlewareBError), undefined))
      [] hook = "jumpTools" -> Value(jumpTo("tools", Some("count" :> 3)))
      [] hook = "jumpModel" -> Value(jumpTo("model", Some("count" :> 3)))
      [] hook = "toolCallLimit.afterModel" ->
            LET toolCalls == runtime.toolCalls
                found == FindLimitation(runtime.context["toolCallLimitation"], toolCalls)
                targetTool == IF Len(found) > 0 THEN Some(found[1].targetTool) ELSE undefined
                updatedCounts == CountCalls(state["toolCallCount"], toolCalls, targetTool, 1)
                count == IF Len(targetTool) > 0 /\ targetTool[1] \in DOMAIN updatedCounts
                         THEN updatedCounts[targetTool[1]] ELSE 0
            IN  IF Len(found) > 0 /\ found[1].maxCalls # 0 /\ count >= found[1].maxCalls
                THEN CallControls(controls, "terminate",
                        Some(("messages" :> state["messages"]) @@ ("toolCallCount" :> updatedCounts)),
                        undefined)
                ELSE Value("toolCallCount" :> updatedCounts)
      [] hook = "modelRequestLimit.beforeModel" ->
            LET newCount == state["modelRequestCount"] + 1
            IN  IF GreaterThan(newCount, runtime.context, "maxRequests")
                THEN CallControls(controls, "terminate",
                        Some(("messages" :> state["messages"])
                             @@ ("modelRequestCount" :> state["modelRequestCount"])),
                        undefined)
                ELSE Value("modelRequestCount" :> newCount)
      [] hook = "reflection.afterModel" ->
            IF ~ReflectionEnabled(runtime.context) \/ state["reflectionMode"] = "done"
            THEN Undefined
            ELSE LET response == LastContent(state["messages"])
                     newReflections == Append(state["reflections"], response)
                     nextIteration == state["reflectionIteration"] + 1
                 IN  IF state["reflectionMode"] = "generator"
                     THEN CallControls(controls, "jumpTo", Some("model"),
                            Some(("currentDraft" :> response) @@ ("reflectionMode" :> "reflector")))
                     ELSE IF state["reflectionMode"] = "reflector"
                     THEN IF nextIteration >= MaxIterationsOf(runtime.context)
                          THEN CallControls(controls, "jumpTo", Some("model"),
                                 Some(("reflections" :> newReflections)
                                      @@ ("reflectionIteration" :> nextIteration)
                                      @@ ("reflectionMode" :> "done")
                                      @@ ("messages" :>
                                             Append(slice(state["messages"], 0, -2),
                                                    AIMessage("assistant", state["currentDraft"])))))
                          ELSE CallControls(controls, "jumpTo", Some("model"),
                                 Some(("reflections" :> newReflections)
                                      @@ ("reflectionIteration" :> nextIteration)
                                      @@ ("reflectionMode" :> "generator")
                                      @@ ("messages" :> slice(state["messages"], 0, -2))))
                     ELSE Undefined
      [] hook = "swarm.afterModel" ->
            LET messages == state["messages"]
                currentAgent == state["currentAgent"]
            IN  IF Len(messages) = 0 \/ ~IsAIMessage(messages[Len(messages)])
                THEN Undefined
                ELSE LET content == messages[Len(messages)].content
                         agentOutputs ==
                             Spread(state["agentOutputs"],
                                    currentAgent :>
                                        Append(IF currentAgent \in DOMAIN state["agentOutputs"]
                                               THEN state["agentOutputs"][currentAgent] ELSE <<>>,
                                               content))
                         handoffMatch == HandoffIn(content)
                     IN  IF Len(handoffMatch) = 0
                         THEN Value("agentOutputs" :> agentOutputs)
                         ELSE IF handoffMatch[1].target \notin CanHandoffTo(currentAgent)
                         THEN Value("agentOutputs" :> agentOutputs)
                         ELSE IF HandoffLimitReached(state["handoffHistory"],
                                                     runtime.context["maxHandoffs"])
                         THEN CallControls(controls, "terminate",
                                Some(Spread(state,
                                       ("agentOutputs" :> agentOutputs)
                                       @@ ("messages" :>
                                              Append(messages,
                                                     AIMessage("assistant",
                                                               "[System] Handoff limit reached."))))),
                                undefined)
                         ELSE CallControls(controls, "jumpTo", Some("model"),
                                Some(("currentAgent" :> handoffMatch[1].target)
                                     @@ ("handoffHistory" :>
                                            Append(state["handoffHistory"],
                                                   [from |-> currentAgent,
                                                    to |-> handoffMatch[1].target,
                                                    reason |-> handoffMatch[1].reason,
                                                    timestamp |-> "now"]))
                                     @@ ("agentOutputs" :> agentOutputs)
                                     @@ ("messages" :>
                                            slice(messages, 0, -1)
                                            \o <<AIMessage("assistant", "[Handing off]"),
                                                 BaseMessage("system", "You are now "
                                                     \o handoffMatch[1].target)>>)))
      [] hook = "trustcall.afterModel" ->
            LET retryState == state["retryState"]
                reset == Value("retryState" :> RetryStateReset)
                messages == state["messages"]
            IN  IF retryState.isRetrying
                THEN IF Len(messages) = 0 \/ messages[Len(messages)].role # "assistant"
                     THEN reset
                     ELSE LET patches == JsonPatchesIn(messages[Len(messages)].content)
                              failedCall == IF "toolCallId" \in DOMAIN retryState
                                            THEN FindCall(runtime.toolCalls, retryState.toolCallId)
                                            ELSE undefined
                          IN  IF patches.ret # "value" \/ Len(failedCall) = 0
                              THEN reset
                              ELSE IF \/ "toolSchemas" \notin DOMAIN runtime.context
                                      \/ failedCall[1].name \notin DOMAIN runtime.context["toolSchemas"]
                              THEN reset
                              ELSE LET patchedArgs == applyJsonPatches(failedCall[1].args, patches.val)
                                       parsed == parse(runtime.context["toolSchemas"][failedCall[1].name],
                                                       patchedArgs)
                                       attempt == [toolCallId |-> failedCall[1].id,
                                                   toolName |-> failedCall[1].name,
                                                   attempt |-> retryState.currentAttempt,
                                                   error |-> IF parsed.ret = "throw" THEN parsed.err.message ELSE "",
                                                   patches |-> patches.val,
                                                   success |-> parsed.ret # "throw"]
                                   IN  IF parsed.ret # "throw"
                                       THEN Value(("validationAttempts" :>
                                                      Append(state["validationAttempts"], attempt))
                                                  @@ ("retryState" :> RetryStateReset))
                                       ELSE IF retryState.currentAttempt < runtime.context["maxRetries"]
                                       THEN CallControls(controls, "retry",
                                              Some(("validationAttempts" :>
                                                       Append(state["validationAttempts"], attempt))
                                                   @@ ("retryState" :>
                                                          [isRetrying |-> TRUE,
                                                           toolCallId |-> failedCall[1].id,
                                                           currentAttempt |-> retryState.currentAttempt + 1])),
                                              undefined)
                                       ELSE reset
                ELSE LET toolError == FirstValidationError(FilterErrors(runtime.toolResults, 1),
                                                           runtime.toolCalls, 1)
                     IN  IF Len(toolError) = 0 THEN Undefined
                         ELSE LET toolCall == FindCall(runtime.toolCalls, toolError[1].id)[1]
                              IN  CallControls(controls, "retry",
                                    Some(("validationAttempts" :>
                                             Append(state["validationAttempts"],
                                                    [toolCallId |-> toolCall.id,
                                                     toolName |-> toolCall.name,
                                                     attempt |-> 0,
                                                     error |-> toolError[1].error,
                                                     success |-> FALSE]))
                                         @@ ("retryState" :>
                                                [isRetrying |-> TRUE,
                                                 toolCallId |-> toolCall.id,
                                                 currentAttempt |-> 1])),
                                    Some([reason |-> "Validation error",
                                          maxAttempts |-> runtime.context["maxRetries"]]))
      [] hook = "retryAlways" -> Value(retry(Some("count" :> 1)))
      [] hook = "patchCount5" -> Value("count" :> 5)
      [] hook = "patchCount7" -> Value(("count" :> 7) @@ ("customStateC" :> 1))

\* The prepareCall hooks, by name: what the hook's body evaluates to for the
\* Prepared Call (options), the state and the runtime it is called with.
CallPrepare(hook, options, state, runtime) ==
    CASE hook = "reflection.prepareCall" ->
            IF ~ReflectionEnabled(runtime.context) THEN Undefined
            ELSE IF state["reflectionMode"] = "generator"
            THEN Value(Spread(options, "systemMessage" :>
                    (IF state["reflectionIteration"] > 0
                     THEN SystemMessageOf(options) \o <<"Previous feedback:">>
                          \o state["reflections"]
                          \o <<"Please improve your response based on this feedback.">>
                     ELSE SystemMessageOf(options))))
            ELSE IF state["reflectionMode"] = "reflector"
            THEN Value(Spread(options,
                    ("systemMessage" :> ReflectionPromptOf(runtime.context))
                    @@ ("messages" :>
                           Append(slice(state["messages"], 0, -1),
                                  BaseMessage("user", "Please review and critique this response: "
                                                      \o state["currentDraft"])))))
            ELSE Value(Spread(options, "systemMessage" :> SystemMessageOf(options)))
      [] hook = "swarm.prepareCall" ->
            Value(Spread(options, "systemMessage" :>
                    <<"You are agent:", state["currentAgent"],
                      "Handoff history:", Len(state["handoffHistory"]),
                      "You can hand off to:", CanHandoffTo(state["currentAgent"])>>))
      [] hook = "trimming.prepareCall" ->
            LET messages == IF "messages" \in DOMAIN options THEN options["messages"]
                            ELSE state["messages"]
                trimmedMessages == sliceFrom(messages, -runtime.context["maxMessages"])
                finalMessages ==
                    [i \in 1..Len(trimmedMessages) |->
                        Spread(trimmedMessages[i],
                               "content" :> substring(trimmedMessages[i].content,
                                                      runtime.context["maxTokensPerMessage"]))]
            IN  Value(Spread(options, "messages" :> finalMessages))
      [] hook = "trustcall.prepareCall" ->
            LET retryState == state["retryState"]
                lastAttempt == IF "toolCallId" \in DOMAIN retryState
                               THEN LastAttemptOf(state["validationAttempts"], retryState.toolCallId)
                               ELSE undefined
                existingData == Spread(IF "existing" \in DOMAIN runtime.context
                                       THEN runtime.context["existing"] ELSE EmptyObject,
                                       state["existingData"])
            IN  IF retryState.isRetrying /\ Len(lastAttempt) > 0
                THEN Value(Spread(options,
                        ("messages" :>
                            Append(state["messages"],
                                   BaseMessage("system",
                                       "The previous tool call failed validation with error: "
                                       \o lastAttempt[1].error)))
                        @@ ("toolChoice" :> "none")))
                ELSE IF DOMAIN existingData # {}
                THEN Value(Spread(options, "systemMessage" :>
                        (SystemMessageOf(options)
                         \o <<"When updating existing data, generate JSON patches instead of full replacements to preserve information:">>
                         \o <<existingData>>)))
                ELSE Value(options)

\* ------------------------------------------------------------ middlewares
\* createMiddleware / defineMiddleware: the middleware object built from a
\* config; a hook the config leaves out is "absent", a schema it leaves out is
\* undefined.
createMiddleware(name, stateSchema, ctxSchema, prepareCall, beforeModel, afterModel) ==
    [name |-> name, stateSchema |-> stateSchema, contextSchema |-> ctxSchema,
     prepareCall |-> prepareCall, beforeModel |-> beforeModel, afterModel |-> afterModel]

\* defineMiddleware copies name, the schemas and the beforeModel / afterModel
\* hooks of the config; a prepareCall of the config is not copied.
defineMiddleware(name, stateSchema, ctxSchema, prepareCall, beforeModel, afterModel) ==
    [name |-> name, stateSchema |-> stateSchema, contextSchema |-> ctxSchema,
     prepareCall |-> "absent", beforeModel |-> beforeModel, afterModel |-> afterModel]

middlewareA ==
    createMiddleware("MiddlewareA",
        Some("customStateA" :> Field("boolean", TRUE, FALSE)),
        Some("customContextA" :> Required("boolean")),
        "absent", "middlewareA.beforeModel", "middlewareA.afterModel")

middlewareB ==
    createMiddleware("MiddlewareB",
        Some("customStateB" :> Field("enum", TRUE, "a")),
        Some("customContextB" :> Required("number")),
        "absent", "middlewareB.beforeModel", "middlewareB.afterModel")

middlewareC ==
    createMiddleware("MiddlewareC",
        Some("customStateC" :> Field("number", TRUE, 0)),
        Some("customContextC" :> Required("enum")),
        "middlewareC.prepareCall", "void", "void")

middlewareD ==
    createMiddleware("middlewareD", undefined, undefined, "absent", "void", "absent")

\* middlewareA of part_002: a state field without a default, hooks return state.
middlewareA_noDefault ==
    createMiddleware("MiddlewareA", Some("customPropertyA" :> Required("boolean")), undefined,
        "absent", "returnState", "returnState")

\* M1 and M2 of the two-middleware scenario.
M1 ==
    createMiddleware("M1", Some("count" :> Field("number", TRUE, 0)), undefined,
        "absent", "M1.beforeModel", "absent")

M2 ==
    createMiddleware("M2", undefined, undefined, "absent", "M2.beforeModel", "absent")

\* Middlewares whose hooks return control-action objects they built themselves
\* (ControlAction is an exported plain object type) or plain patches.
M2_literal ==
    createMiddleware("M2", Some(EmptyObject), undefined, "absent", "terminateResult", "absent")

TerminateError ==
    createMiddleware("TerminateError", Some(EmptyObject), undefined, "absent", "terminateError", "absent")

TerminateErrorAsResult ==
    createMiddleware("TerminateErrorAsResult", Some(EmptyObject), undefined,
        "absent", "terminateErrorAsResult", "terminateErrorAsResult")

JumpTools ==
    createMiddleware("JumpTools", Some(EmptyObject), undefined, "absent", "absent", "jumpTools")

JumpModel ==
    createMiddleware("JumpModel", Some("count" :> Field("number", TRUE, 0)), undefined,
        "absent", "jumpModel", "absent")

RetryAlways ==
    createMiddleware("RetryAlways", Some(EmptyObject), undefined, "absent", "retryAlways", "absent")

\* Patch5 also declares a state field named messages, with default [].
Patch5 ==
    createMiddleware("Patch5",
        Some(("count" :> Field("number", TRUE, 0)) @@ ("messages" :> Field("array", TRUE, <<>>))),
        undefined, "absent", "patchCount5", "absent")

Patch7 ==
    createMiddleware("Patch7", Some("count" :> Field("number", TRUE, 1)),
        Some("country" :> Field("string", TRUE, "a")),
        "absent", "patchCount7", "absent")

\* toolCallLimitMiddleware of part_004.
toolCallLimitMiddleware ==
    createMiddleware("ToolCallLimitMiddleware",
        Some("toolCallCount" :> Field("record", TRUE, EmptyObject)),
        Some("toolCallLimitation" :> Required("array")),
        "absent", "absent", "toolCallLimit.afterModel")

\* modelRequestLimitMiddleware of part_004.
modelRequestLimitMiddleware ==
    createMiddleware("ModelRequestLimitMiddleware",
        Some("modelRequestCount" :> Field("number", TRUE, 0)),
        Some("maxRequests" :> Field("number", TRUE, "10")),
        "absent", "modelRequestLimit.beforeModel", "absent")

\* reflectionMiddleware of part_004.
reflectionMiddleware ==
    createMiddleware("Reflection",
        Some(("reflectionIteration" :> Field("number", TRUE, 0))
             @@ ("currentDraft" :> Field("string", TRUE, ""))
             @@ ("reflections" :> Field("array", TRUE, <<>>))
             @@ ("reflectionMode" :> Field("enum", TRUE, "generator"))),
        Some("reflection" :> Optional("object")),
        "reflection.prepareCall", "absent", "reflection.afterModel")

\* swarmMiddleware of src/examples/summarization.ts.
swarmMiddleware ==
    defineMiddleware("SwarmAgentMiddleware",
        Some(("currentAgent" :> Field("enum", TRUE, "coordinator"))
             @@ ("handoffHistory" :> Field("array", TRUE, <<>>))
             @@ ("agentOutputs" :> Field("record", TRUE, EmptyObject))),
        Some(("maxHandoffs" :> Field("number", TRUE, 5))
             @@ ("verbose" :> Field("boolean", TRUE, TRUE))),
        "swarm.prepareCall", "absent", "swarm.afterModel")

\* trimmingMiddleware of part_004.
trimmingMiddleware ==
    createMiddleware("TrimmingMiddleware",
        Some("trimCount" :> Field("number", TRUE, 0)),
        Some(("maxMessages" :> Field("number", TRUE, 10))
             @@ ("maxTokensPerMessage" :> Field("number", TRUE, 500))),
        "trimming.prepareCall", "absent", "absent")

\* trustcallMiddleware of src/examples/trustcall.ts.
trustcallMiddleware ==
    createMiddleware("TrustcallMiddleware",
        Some(("validationAttempts" :> Field("array", TRUE, <<>>))
             @@ ("existingData" :> Field("record", TRUE, EmptyObject))
             @@ ("retryState" :> Field("object", TRUE, RetryStateReset))),
        Some(("maxRetries" :> Field("number", TRUE, 3))
             @@ ("verbose" :> Field("boolean", TRUE, FALSE))
             @@ ("existing" :> Optional("record"))
             @@ ("toolSchemas" :> Optional("record"))),
        "trustcall.prepareCall", "absent", "trustcall.afterModel")

\* The middlewares a configuration is drawn from.
Pool == <<middlewareA, middlewareB, middlewareC, middlewareD, middlewareA_noDefault,
          M1, M2, M2_literal, TerminateError, TerminateErrorAsResult,
          JumpTools, RetryAlways, Patch5, Patch7, JumpModel, modelRequestLimitMiddleware>>

\* The top-level contextSchema values a configuration is drawn from.
ContextSchemas == <<
    undefined,
    Some(("name" :> Required("string")) @@ ("age" :> Required("number"))
         @@ ("country" :> Field("string", TRUE, "USA"))),
    Some("userId" :> Required("string")),
    Some(("name" :> Required("string")) @@ ("customContextC" :> Required("number")))>>

\* ------------------------------------------------------------ createAgent
RECURSIVE MergeFrom(_, _, _)
MergeFrom(mergedSchema, mws, k) ==
    IF k > Len(mws) THEN mergedSchema
    ELSE MergeFrom(IF Len(Pool[mws[k]].contextSchema) > 0
                   THEN merge(mergedSchema, Pool[mws[k]].contextSchema[1])
                   ELSE mergedSchema, mws, k + 1)

\* mergeContextSchemas(contextSchema, middlewares)
mergeContextSchemas(cs, mws) ==
    MergeFrom(IF Len(cs) > 0 THEN cs[1] ELSE EmptyObject, mws, 1)

\* ----------------------------------------------------------- caller inputs
ValidValue(type) ==
    CASE type = "string" -> "John" [] type = "number" -> "42"
      [] type = "boolean" -> "true" [] type = "enum" -> "a"

WrongValue(type) == IF type = "string" THEN "42" ELSE "u1"

\* A number a caller passes as a limit or a count may be zero.
ZeroValue(type) == IF type = "number" THEN "0" ELSE ValidValue(type)

ArgModes == {"omitted", "full", "zero", "requiredOnly", "wrongType", "extraKey"}

\* The context argument of invoke, described relative to the merged schema.
ContextArg(mode, schema) ==
    CASE mode = "omitted" -> EmptyObject
      [] mode = "full" -> [f \in DOMAIN schema |-> ValidValue(schema[f].type)]
      [] mode = "zero" -> [f \in DOMAIN schema |-> ZeroValue(schema[f].type)]
      [] mode = "requiredOnly" ->
            [f \in {g \in DOMAIN schema : ~schema[g].hasDefault} |-> ValidValue(schema[f].type)]
      [] mode = "wrongType" -> [f \in DOMAIN schema |-> WrongValue(schema[f].type)]
      [] mode = "extraKey" ->
            [f \in DOMAIN schema |-> ValidValue(schema[f].type)] @@ ("extra" :> "u1")

Message == "Hello, world!"

\* ------------------------------------------------------------------ state
VARIABLES
    build,                \* which copy of createAgent runs
    contextSchema,        \* config.contextSchema, an index into ContextSchemas
    middlewares,          \* config.middlewares, a sequence of indices into Pool
    mergedContextSchema,  \* const mergedContextSchema of createAgent
    args,                 \* the context argument of invoke
    pc,                   \* "created", "loop" (between two iterations), "done"
    idx,                  \* position of the for-of loop over the middlewares
    runtime,              \* const runtime of invoke
    initialState,         \* const initialState of invoke
    currentState,         \* let currentState of invoke
    outcome,              \* how the promise invoke returned has settled
    hookCalls,            \* every hook call made so far: who, with what, result
    modelCalls,           \* calls of the inference provider made so far
    toolRuns,             \* calls of the tool executor made so far
    second,               \* a second invoke call on the same agent: its own locals
    toolLimit,            \* toolCallLimitMiddleware.afterModel applied response by response
    example               \* an example middleware run through the orchestration loop

vars == <<build, contextSchema, middlewares, mergedContextSchema, args, pc, idx,
          runtime, initialState, currentState, outcome, hookCalls, modelCalls, toolRuns,
          second, toolLimit, example>>

config == <<build, contextSchema, middlewares, mergedContextSchema, args>>

Mw(k) == Pool[middlewares[k]]

Pending == [kind |-> "pending", state |-> undefined, error |-> undefined]

Resolved(state) == [kind |-> "resolved", state |-> Some(state), error |-> undefined]

Rejected(e) == [kind |-> "rejected", state |-> undefined, error |-> Some(e)]

RECURSIVE SeqsUpTo(_, _)
SeqsUpTo(S, n) ==
    IF n = 0 THEN {<<>>}
    ELSE SeqsUpTo(S, n - 1) \cup
         {Append(q, x) : q \in {r \in SeqsUpTo(S, n - 1) : Len(r) = n - 1}, x \in S}

\* The state after createAgent(config) has returned the agent.  createAgent
\* has no failing path at run time: it merges the context schemas and returns.
Init ==
    /\ build \in {"agent_ts", "part_000"}
    /\ contextSchema \in 1..Len(ContextSchemas)
    /\ middlewares \in SeqsUpTo(1..Len(Pool), MaxMiddlewares)
    /\ mergedContextSchema = mergeContextSchemas(ContextSchemas[contextSchema], middlewares)
    /\ \E mode \in ArgModes : args = ContextArg(mode, mergedContextSchema)
    /\ pc = "created"
    /\ idx = 0
    /\ runtime = undefined
    /\ initialState = undefined
    /\ currentState = undefined
    /\ outcome = Pending
    /\ hookCalls = <<>>
    /\ modelCalls = 0
    /\ toolRuns = 0
    /\ second = [pc |-> "created", idx |-> 0, runtime |-> undefined, initialState |-> undefined,
                 currentState |-> undefined, outcome |-> Pending, hookCalls |-> <<>>,
                 startedAt |-> [pc |-> "none", idx |-> 0, state |-> undefined]]
    /\ toolLimit = [limitation |-> <<>>, state |-> EmptyObject, issued |-> EmptyObject,
                    passes |-> <<>>, terminated |-> FALSE]
    /\ example = [name |-> "none"]

\* The context invoke stores in runtime: part_000 parses the argument against
\* the merged schema, agent.ts stores the argument itself.
InvokeContext(b, schema, a) == IF b = "part_000" THEN parse(schema, a) ELSE Value(a)

\* middleware.stateSchema.parse({}): agent.ts calls it on every middleware,
\* part_000 only when the middleware has a stateSchema.
StateDefaults(b, mw) ==
    IF Len(mw.stateSchema) > 0 THEN parse(mw.stateSchema[1], EmptyObject)
    ELSE IF b = "part_000" THEN Value(EmptyObject)
    ELSE Throw(Error("TypeError", "stateSchema.parse", {}))

\* The loop that fills middlewareStates, from middleware k on.
RECURSIVE MiddlewareStatesFromEarlierWins(_, _, _, _)
MiddlewareStatesFromEarlierWins(b, mws, k, middlewareStates) ==
    IF k > Len(mws) THEN Value(middlewareStates)
    ELSE LET defaultState == StateDefaults(b, Pool[mws[k]])
         IN  IF defaultState.ret = "throw" THEN defaultState
             ELSE MiddlewareStatesFromEarlierWins(b, mws, k + 1,
                      SpreadEarlierWins(middlewareStates, defaultState.val))

RECURSIVE MiddlewareStatesFrom(_, _, _, _)
MiddlewareStatesFrom(b, mws, k, middlewareStates) ==
    IF k > Len(mws) THEN Value(middlewareStates)
    ELSE LET defaultState == StateDefaults(b, Pool[mws[k]])
         IN  IF defaultState.ret = "throw" THEN defaultState
             ELSE MiddlewareStatesFrom(b, mws, k + 1, Spread(middlewareStates, defaultState.val))

\* { ...middlewareStates, messages: [new BaseMessage('user', message)] }
InitialStateDefaultsWin(middlewareStates, message) ==
    Spread("messages" :> <<BaseMessage("user", message)>>, middlewareStates)

InitialState(middlewareStates, message) ==
    Spread(middlewareStates, "messages" :> <<BaseMessage("user", message)>>)

\* const runtime = { ... }
NewRuntime(context) ==
    [toolCalls |-> <<>>, toolResults |-> <<>>,
     tokenUsage |-> [inputTokens |-> 0, outputTokens |-> 0, totalTokens |-> 0],
     context |-> context, currentIteration |-> 0]

\* agent.invoke(message, context), up to the first iteration of the loop.
invoke ==
    /\ pc = "created"
    /\ LET context == InvokeContext(build, mergedContextSchema, args)
           states == MiddlewareStatesFrom(build, middlewares, 1, EmptyObject)
       IN  IF context.ret = "throw"
           THEN /\ pc' = "done"
                /\ outcome' = Rejected(context.err)
                /\ UNCHANGED <<idx, runtime, initialState, currentState>>
           ELSE IF states.ret = "throw"
           THEN /\ pc' = "done"
                /\ outcome' = Rejected(states.err)
                /\ runtime' = Some(NewRuntime(context.val))
                /\ UNCHANGED <<idx, initialState, currentState>>
           ELSE /\ pc' = "loop"
                /\ idx' = 1
                /\ runtime' = Some(NewRuntime(context.val))
                /\ initialState' = Some(InitialState(states.val, Message))
                /\ currentState' = Some(InitialState(states.val, Message))
                /\ UNCHANGED outcome
    /\ UNCHANGED <<config, hookCalls, modelCalls, toolRuns, second, toolLimit, example>>

\* The state handed to middleware.beforeModel: currentState.
HookStateInitial(current, initial) == initial

HookState(current, initial) == current

\* currentState = { ...currentState, ...result }
MergePatchEarlierWins(state, result) == Spread(result, state)

MergePatchResetsMessages(state, result) ==
    Spread(Spread(state, result), "messages" :> <<>>)

MergePatch(state, result) == Spread(state, result)

\* The runtime argument of middleware.beforeModel: the one runtime object of
\* the call, whichever middleware is called.
HookRuntimeRebuilt(rt, k) == [rt EXCEPT !.currentIteration = k]

HookRuntime(rt, k) == rt

\* await middleware.beforeModel(...) outside any try: a throw of the hook
\* leaves the loop and rejects the promise of invoke.
HookFailedSwallowed(result) == FALSE

HookFailed(result) == result.ret = "throw"

\* The control-action branch of invoke is empty: currentState stays as it is.
OnControlActionRollback(current, initial, result) == initial

OnControlAction(current, initial, result) == current

\* if (middleware.beforeModel)
HasHookUnchecked(middleware, hook) == TRUE

HasHook(middleware, hook) == middleware[hook] # "absent"

\* for (const middleware of middlewares): the iterator moves on to the next
\* middleware whatever the hook returned.
NextMiddlewareRetried(k, result) ==
    IF IsControlAction(result) /\ result.val["type"] = "retry" THEN k ELSE k + 1

NextMiddleware(k, result) == k + 1

\* One iteration of `for (const middleware of middlewares)`.
beforeModelStep ==
    /\ pc = "loop"
    /\ idx <= Len(middlewares)
    /\ LET middleware == Mw(idx)
           state == HookState(currentState[1], initialState[1])
           snapshot == HookRuntime(runtime[1], idx)
           result == CallHook(middleware.beforeModel, state, snapshot, invokeControls)
       IN  IF ~HasHook(middleware, "beforeModel")
           THEN /\ idx' = idx + 1
                /\ UNCHANGED <<pc, currentState, outcome, hookCalls>>
           ELSE /\ hookCalls' = Append(hookCalls,
                        [middleware |-> idx, hook |-> "beforeModel", state |-> state,
                         runtime |-> snapshot, result |-> result])
                /\ IF HookFailed(result)
                   THEN /\ pc' = "done"
                        /\ outcome' = Rejected(result.err)
                        /\ UNCHANGED <<idx, currentState>>
                   ELSE /\ idx' = NextMiddleware(idx, result)
                        /\ currentState' =
                              IF IsControlAction(result)
                              THEN OnControlAction(currentState, initialState, result)
                              ELSE IF result.ret = "value"
                                   THEN Some(MergePatch(currentState[1], result.val))
                                   ELSE currentState
                        /\ UNCHANGED <<pc, outcome>>
    /\ UNCHANGED <<config, runtime, initialState, modelCalls, toolRuns, second, toolLimit, example>>

\* return currentState
return ==
    /\ pc = "loop"
    /\ idx > Len(middlewares)
    /\ pc' = "done"
    /\ outcome' = Resolved(currentState[1])
    /\ UNCHANGED <<config, idx, runtime, initialState, currentState, hookCalls, modelCalls, toolRuns,
                   second, toolLimit, example>>

Next == invoke \/ beforeModelStep \/ return

Spec == Init /\ [][Next]_vars

\* ------------------------------------------- a second call of agent.invoke
\* The same agent is invoked a second time with the same arguments, at any
\* moment of the first invocation (before it, between two of its await points,
\* or after it).  Every local of invoke exists once per call.
first == <<pc, idx, runtime, initialState, currentState, outcome, hookCalls>>

\* const middlewareStates: Record<string, any> = {}, declared inside invoke:
\* a new object per call, whatever state an earlier call has left.
FreshStatesKept(previous) == IF Len(previous) > 0 THEN previous[1] ELSE EmptyObject

FreshStates(previous) == EmptyObject

\* let currentState, declared inside invoke: each call reads and writes its own.
OwnStateShared(own, other) == IF Len(other) > 0 THEN other ELSE own

OwnState(own, other) == own

invokeSecond ==
    /\ second.pc = "created"
    /\ LET context == InvokeContext(build, mergedContextSchema, args)
           states == MiddlewareStatesFrom(build, middlewares, 1, FreshStates(currentState))
           started == [second EXCEPT !.startedAt = [pc |-> pc, idx |-> idx, state |-> currentState]]
       IN  IF context.ret = "throw"
           THEN second' = [started EXCEPT !.pc = "done", !.outcome = Rejected(context.err)]
           ELSE IF states.ret = "throw"
           THEN second' = [started EXCEPT !.pc = "done", !.outcome = Rejected(states.err),
                                          !.runtime = Some(NewRuntime(context.val))]
           ELSE second' = [started EXCEPT !.pc = "loop", !.idx = 1,
                                          !.runtime = Some(NewRuntime(context.val)),
                                          !.initialState = Some(InitialState(states.val, Message)),
                                          !.currentState = Some(InitialState(states.val, Message))]
    /\ UNCHANGED <<config, first, modelCalls, toolRuns, toolLimit, example>>

beforeModelStepSecond ==
    /\ second.pc = "loop"
    /\ second.idx <= Len(middlewares)
    /\ LET middleware == Mw(second.idx)
           current == OwnState(second.currentState, currentState)
           state == HookState(current[1], second.initialState[1])
           snapshot == HookRuntime(second.runtime[1], second.idx)
           result == CallHook(middleware.beforeModel, state, snapshot, invokeControls)
           called == [second EXCEPT !.hookCalls = Append(second.hookCalls,
                        [middleware |-> second.idx, hook |-> "beforeModel", state |-> state,
                         runtime |-> snapshot, result |-> result])]
       IN  IF ~HasHook(middleware, "beforeModel")
           THEN second' = [second EXCEPT !.idx = second.idx + 1]
           ELSE IF HookFailed(result)
           THEN second' = [called EXCEPT !.pc = "done", !.outcome = Rejected(result.err)]
           ELSE second' = [called EXCEPT
                    !.idx = second.idx + 1,
                    !.currentState =
                        IF IsControlAction(result)
                        THEN OnControlAction(current, second.initialState, result)
                        ELSE IF result.ret = "value"
                             THEN Some(MergePatch(current[1], result.val))
                             ELSE current]
    /\ UNCHANGED <<config, first, modelCalls, toolRuns, toolLimit, example>>

returnSecond ==
    /\ second.pc = "loop"
    /\ second.idx > Len(middlewares)
    /\ second' = [second EXCEPT !.pc = "done", !.outcome = Resolved(second.currentState[1])]
    /\ UNCHANGED <<config, first, modelCalls, toolRuns, toolLimit, example>>

NextTwo == Next \/ invokeSecond \/ beforeModelStepSecond \/ returnSecond

\* Two calls multiply the interleavings; the agent's own context schema is
\* fixed to the one of src/index.ts and the argument is the complete context
\* or none, which keeps both the accepted and the rejected call.
InitTwo ==
    /\ Init
    /\ contextSchema = 2
    /\ \E mode \in {"full", "omitted"} : args = ContextArg(mode, mergedContextSchema)

SpecTwo == InitTwo /\ [][NextTwo]_vars

TypeOK ==
    /\ pc \in {"created", "loop", "done"}
    /\ outcome.kind \in {"pending", "resolved", "rejected"}
    /\ (pc = "done") = (outcome.kind # "pending")

\* ----------------------------------------------------- reading the history
Calls == 1..Len(hookCalls)

\* The hook call returned a plain state patch (which invoke merges).
IsPatch(r) == r.ret = "value" /\ ~IsControlAction(r)

IsAction(r, type) == IsControlAction(r) /\ r.val["type"] = type

\* No hook call before call n returned a control action or threw.
FirstAction(n) == \A m \in 1..(n - 1) : ~IsControlAction(hookCalls[m].result)

\* The hook of some configured middleware, whether or not it was ever called.
Configured(hookName, id) == \E k \in 1..Len(middlewares) : Mw(k)[hookName] = id

\* ------------------------- toolCallLimitMiddleware, response by response
\* The afterModel hook of toolCallLimitMiddleware is a function of the state,
\* of runtime.toolCalls and of context.toolCallLimitation.  It is applied here
\* to a series of inference responses, one afterModel pass per response: its
\* patch is merged into state, and a terminate action ends the series.
MaxPasses == 3

Tools == {"search", "calculator", "lookup"}

\* new ToolCall: id, name, args
ToolCall(id, name) == [id |-> id, name |-> name, args |-> EmptyObject]

\* The tool calls one response can carry: none, one or two.
Responses ==
    {<<>>} \cup {<<ToolCall(1, a)>> : a \in Tools}
           \cup {<<ToolCall(1, a), ToolCall(2, b)>> : a \in Tools, b \in Tools}

\* context.toolCallLimitation as a caller passes it.
Limitations ==
    {<<[targetTool |-> "search", maxCalls |-> 2]>>,
     <<[targetTool |-> "search", maxCalls |-> 2], [targetTool |-> "calculator", maxCalls |-> 1]>>,
     <<[targetTool |-> "calculator", maxCalls |-> 2], [targetTool |-> "search", maxCalls |-> 3]>>}

\* The calls of tool t among toolCalls.
CallsTo(t, toolCalls) == Cardinality({k \in 1..Len(toolCalls) : toolCalls[k].name = t})

InitToolLimit ==
    /\ build = "agent_ts"
    /\ contextSchema = 1
    /\ middlewares = <<>>
    /\ mergedContextSchema = mergeContextSchemas(ContextSchemas[contextSchema], middlewares)
    /\ args = EmptyObject
    /\ pc = "created"
    /\ idx = 0
    /\ runtime = undefined
    /\ initialState = undefined
    /\ currentState = undefined
    /\ outcome = Pending
    /\ hookCalls = <<>>
    /\ modelCalls = 0
    /\ toolRuns = 0
    /\ second = [pc |-> "created", idx |-> 0, runtime |-> undefined, initialState |-> undefined,
                 currentState |-> undefined, outcome |-> Pending, hookCalls |-> <<>>,
                 startedAt |-> [pc |-> "none", idx |-> 0, state |-> undefined]]
    /\ \E limitation \in Limitations :
          toolLimit = [limitation |-> limitation,
                       state |-> InitialState(
                                    parse(toolCallLimitMiddleware.stateSchema[1], EmptyObject).val,
                                    Message),
                       issued |-> [t \in Tools |-> 0],
                       passes |-> <<>>,
                       terminated |-> FALSE]
    /\ example = [name |-> "none"]

\* One afterModel pass: the hook is called with the tool calls of a response.
afterModelPass ==
    /\ ~toolLimit.terminated
    /\ Len(toolLimit.passes) < MaxPasses
    /\ \E toolCalls \in Responses :
          LET snapshot == [NewRuntime("toolCallLimitation" :> toolLimit.limitation)
                              EXCEPT !.toolCalls = toolCalls]
              result == CallHook(toolCallLimitMiddleware.afterModel, toolLimit.state, snapshot,
                                 createControls)
          IN  toolLimit' = [toolLimit EXCEPT
                  !.passes = Append(@, toolCalls),
                  !.issued = [t \in Tools |-> @[t] + CallsTo(t, toolCalls)],
                  !.terminated = IsAction(result, "terminate"),
                  !.state = IF IsPatch(result) THEN MergePatch(@, result.val)
                            ELSE IF IsAction(result, "terminate") /\ "result" \in DOMAIN result.val
                                 THEN MergePatch(@, result.val["result"])
                                 ELSE @]
    /\ UNCHANGED <<config, first, modelCalls, toolRuns, second, example>>

NextToolLimit == afterModelPass

SpecToolLimit == InitToolLimit /\ [][NextToolLimit]_vars

\* ------------------------- example middlewares in the orchestration loop
\* invoke of src/ runs the beforeModel hooks once and returns; the MODEL and
\* TOOLS nodes the prepareCall and afterModel hooks of the example middlewares
\* are written for are not in it.  Here an agent with one example middleware
\* runs through the orchestration loop of the specification (4.2, 4.3): the
\* hooks are those of the source, called with the controls createControls()
\* builds; the inference provider and the tool executor are external and
\* answer with any response of a small set.
MaxVisits == 6

\* Largest limit a caller passes in context (maxIterations, maxRetries,
\* maxMessages, maxHandoffs).
MaxLimit == 2

\* RetryOptions.maxAttempts: default 3.  createControls().retry(stateUpdate)
\* takes no options, so every retry action runs under the default.
DefaultMaxAttempts == 3

\* The assistant message of an inference response.
ResponseMessage(content) == [role |-> "assistant", content |-> content, type |-> "ai"]

\* UserPreferencesSchema of the trustcall example, cut down to one field.
UserPreferencesSchema == "frequency" :> Required("enum")

\* A response that is text only.
TextResponses(contents) == {[message |-> ResponseMessage(c), toolCalls |-> <<>>] : c \in contents}

\* A response that asks for one call of update_preferences with arguments the
\* tool's schema rejects; the provider numbers the calls of a turn.
ToolCallResponse(ex) ==
    [message |-> ResponseMessage(""),
     toolCalls |-> <<[id |-> Len(ex.toolCalls) + 1, name |-> "update_preferences",
                      args |-> ("frequency" :> "u1")]>>]

\* The responses the inference provider may give an example agent for a
\* Prepared Call; under toolChoice 'none' it requests no tool call.
Inference(ex, prepared) ==
    CASE ex.name = "reflection" -> TextResponses({"x", "y"})
      [] ex.name = "swarm" ->
            TextResponses({"done", "HANDOFF_TO: researcher REASON: r", "HANDOFF_TO: Coder REASON: r",
                           "HANDOFF_TO: reviewer REASON: r", "HANDOFF_TO: coordinator REASON: r",
                           "HANDOFF_TO: manager REASON: r"})
            \cup {[message |-> BaseMessage("assistant", "HANDOFF_TO: Coder REASON: r"),
                   toolCalls |-> <<>>]}
      [] ex.name = "trimming" -> TextResponses({"done"}) \cup {ToolCallResponse(ex)}
      [] ex.name = "trustcall" ->
            TextResponses({"[fix]", "[keep]", "[oops]", "done"})
            \cup (IF "toolChoice" \in DOMAIN prepared /\ prepared["toolChoice"] = "none"
                  THEN {} ELSE {ToolCallResponse(ex)})

\* The results the tool executor may give for the pending tool calls.
ToolOutcomes(pending) ==
    {[k \in 1..Len(pending) |-> [id |-> pending[k].id, result |-> "", error |-> e[k]]] :
        e \in [1..Len(pending) -> {"", "validation failed", "timeout"}]}

\* The contexts (validated, defaults applied) an example agent is invoked with.
Contexts(name) ==
    CASE name = "reflection" ->
            {"reflection" :> [enabled |-> e, maxIterations |-> n] :
                e \in BOOLEAN, n \in 0..MaxLimit}
      [] name = "swarm" -> {[maxHandoffs |-> n, verbose |-> TRUE] : n \in 0..MaxLimit}
      [] name = "trimming" ->
            {[maxMessages |-> n, maxTokensPerMessage |-> t] : n \in 0..MaxLimit, t \in {5, 500}}
      [] name = "trustcall" ->
            {[maxRetries |-> n, verbose |-> FALSE,
              toolSchemas |-> ("update_preferences" :> UserPreferencesSchema)] :
                n \in 0..(DefaultMaxAttempts + MaxLimit)}

ExampleMiddleware(name) ==
    CASE name = "reflection" -> reflectionMiddleware
      [] name = "swarm" -> swarmMiddleware
      [] name = "trimming" -> trimmingMiddleware
      [] name = "trustcall" -> trustcallMiddleware

Examples == {"reflection", "swarm", "trimming", "trustcall"}

\* The invocation on entering the loop: state = defaultState() patched with
\* the initial user message, currentIteration = 0, node MODEL.
StartExample(name, context) ==
    [name |-> name,
     context |-> context,
     state |-> InitialState(parse(ExampleMiddleware(name).stateSchema[1], EmptyObject).val, Message),
     node |-> "MODEL",
     currentIteration |-> 0,
     reentered |-> FALSE,
     toolCalls |-> <<>>,
     pending |-> <<>>,
     toolResults |-> <<>>,
     attempts |-> 0,
     outcome |-> Pending,
     visits |-> <<>>]

InitLoop ==
    /\ build = "part_000"
    /\ contextSchema = 1
    /\ middlewares = <<>>
    /\ mergedContextSchema = mergeContextSchemas(ContextSchemas[contextSchema], middlewares)
    /\ args = EmptyObject
    /\ pc = "created"
    /\ idx = 0
    /\ runtime = undefined
    /\ initialState = undefined
    /\ currentState = undefined
    /\ outcome = Pending
    /\ hookCalls = <<>>
    /\ modelCalls = 0
    /\ toolRuns = 0
    /\ second = [pc |-> "created", idx |-> 0, runtime |-> undefined, initialState |-> undefined,
                 currentState |-> undefined, outcome |-> Pending, hookCalls |-> <<>>,
                 startedAt |-> [pc |-> "none", idx |-> 0, state |-> undefined]]
    /\ toolLimit = [limitation |-> <<>>, state |-> EmptyObject, issued |-> EmptyObject,
                    passes |-> <<>>, terminated |-> FALSE]
    /\ \E name \in Examples : \E context \in Contexts(name) :
          example = StartExample(name, context)

\* The Runtime Snapshot of the step: the tool calls issued and the tool
\* results received so far in the turn, the context, the iteration number.
Snapshot(ex) ==
    [NewRuntime(ex.context) EXCEPT !.toolCalls = ex.toolCalls, !.toolResults = ex.toolResults,
                                   !.currentIteration = ex.currentIteration]

\* The Control Resolver (4.3), and the default resolution of 4.2 step 6 when
\* the hook returned a patch or nothing.
Resolve(ex, result) ==
    IF result.ret = "throw"
    THEN [ex EXCEPT !.node = "TERMINATED", !.outcome = Rejected(result.err)]
    ELSE IF IsAction(result, "jump")
    THEN [ex EXCEPT !.state = IF "stateUpdate" \in DOMAIN result.val
                              THEN MergePatch(@, result.val["stateUpdate"]) ELSE @,
                    !.node = IF result.val["target"] = "tools" THEN "TOOLS" ELSE "MODEL"]
    ELSE IF IsAction(result, "terminate")
    THEN IF "error" \in DOMAIN result.val
         THEN [ex EXCEPT !.node = "TERMINATED", !.outcome = Rejected(result.val["error"])]
         ELSE LET final == IF "result" \in DOMAIN result.val
                           THEN MergePatch(ex.state, result.val["result"]) ELSE ex.state
              IN  [ex EXCEPT !.state = final, !.node = "TERMINATED", !.outcome = Resolved(final)]
    ELSE IF IsAction(result, "retry")
    THEN LET merged == IF "stateUpdate" \in DOMAIN result.val
                       THEN MergePatch(ex.state, result.val["stateUpdate"]) ELSE ex.state
         IN  IF ex.attempts + 1 > DefaultMaxAttempts
             THEN [ex EXCEPT !.state = merged, !.attempts = @ + 1, !.node = "TERMINATED",
                             !.outcome = Rejected(Error("RetryExhausted", "", {}))]
             ELSE [ex EXCEPT !.state = merged, !.attempts = @ + 1, !.node = "MODEL",
                             !.reentered = TRUE]
    ELSE LET merged == IF IsPatch(result) THEN MergePatch(ex.state, result.val) ELSE ex.state
         IN  IF Len(ex.pending) > 0
             THEN [ex EXCEPT !.state = merged, !.node = "TOOLS"]
             ELSE [ex EXCEPT !.state = merged, !.node = "TERMINATED", !.outcome = Resolved(merged)]

\* One visit to MODEL: the Prepared Call is seeded with state.messages and
\* shaped by prepareCall, the provider's assistant message is recorded into
\* state.messages and its tool calls into the snapshot, afterModel runs, and
\* the next node is resolved.  (The example middlewares have no beforeModel.)
modelVisit ==
    /\ example.name \in Examples
    /\ example.node = "MODEL"
    /\ Len(example.visits) < MaxVisits
    /\ LET middleware == ExampleMiddleware(example.name)
           entered == [example EXCEPT
                         !.currentIteration = IF example.reentered THEN @ ELSE @ + 1,
                         !.reentered = FALSE]
           call == "messages" :> entered.state["messages"]
           shaped == IF middleware.prepareCall = "absent" THEN Undefined
                     ELSE CallPrepare(middleware.prepareCall, call, entered.state, Snapshot(entered))
           prepared == IF shaped.ret = "value" THEN shaped.val ELSE call
       IN  \E response \in Inference(entered, prepared) :
              LET recorded == [entered EXCEPT
                                 !.state = MergePatch(@, "messages" :>
                                               Append(@["messages"], response.message)),
                                 !.toolCalls = @ \o response.toolCalls,
                                 !.pending = response.toolCalls]
                  result == IF middleware.afterModel = "absent" THEN Undefined
                            ELSE CallHook(middleware.afterModel, recorded.state, Snapshot(recorded),
                                          createControls)
                  visit == [entry |-> entered.state, prepared |-> prepared, response |-> response,
                            result |-> result]
              IN  example' = [Resolve(recorded, result) EXCEPT !.visits = Append(@, visit)]
    /\ UNCHANGED <<config, first, modelCalls, toolRuns, second, toolLimit>>

\* One visit to TOOLS: the tool executor runs every pending tool call, the
\* results are recorded in the snapshot, and the loop returns to MODEL.
toolsVisit ==
    /\ example.name \in Examples
    /\ example.node = "TOOLS"
    /\ \E results \in ToolOutcomes(example.pending) :
          example' = [example EXCEPT !.toolResults = @ \o results, !.pending = <<>>,
                                     !.node = "MODEL"]
    /\ UNCHANGED <<config, first, modelCalls, toolRuns, second, toolLimit>>

NextLoop == modelVisit \/ toolsVisit

SpecLoop == InitLoop /\ [][NextLoop]_vars

\* ------------------------------------------------------------------ claims

\* C1: when the k-th middleware's beforeModel returns terminate(error), no
\* beforeModel hook of a later middleware is invoked in that invocation, the
\* inference provider is not called and no tool call is made.
C1_TerminateErrorStopsPhase ==
    \A n \in Calls :
        (IsAction(hookCalls[n].result, "terminate") /\ "error" \in DOMAIN hookCalls[n].result.val)
        => /\ \A m \in Calls : hookCalls[m].middleware <= hookCalls[n].middleware
           /\ modelCalls = 0
           /\ toolRuns = 0

\* C2: when a hook returns what controls.terminate(new Error(...)) builds (the
\* error as the single argument), the invocation ends in the failure outcome
\* carrying exactly that error, never in a final state, and the error is never
\* merged into state.
C2_TerminateErrorIsFailure ==
    \A n \in Calls :
        (/\ hookCalls[n].result = Value(terminate(Some(MiddlewareBError), undefined))
         /\ FirstAction(n)
         /\ pc = "done")
        => /\ outcome = Rejected(MiddlewareBError)
           /\ "message" \notin DOMAIN currentState[1]

\* C3: when a beforeModel hook returns terminate(result) with a state patch and
\* no error, invoke returns the state accumulated so far with result merged
\* over it (M1 then M2: count = 99).
C3_TerminateResultMerged ==
    \A n \in Calls :
        (/\ IsAction(hookCalls[n].result, "terminate")
         /\ "error" \notin DOMAIN hookCalls[n].result.val
         /\ hookCalls[n].result.val["result"] = ("count" :> 99)
         /\ FirstAction(n)
         /\ pc = "done")
        => /\ outcome.kind = "resolved"
           /\ outcome.state[1] = Spread(hookCalls[n].state, "count" :> 99)

\* C4: when the hooks of two middlewares i < j return patches in the same phase
\* that set the same field, the state holds middleware j's value for it once
\* both have run (and until a later patch sets the field again).
C4_LaterPatchWins ==
    \A a \in Calls : \A b \in Calls :
        (/\ a < b
         /\ IsPatch(hookCalls[a].result)
         /\ IsPatch(hookCalls[b].result))
        => \A f \in DOMAIN hookCalls[a].result.val \cap DOMAIN hookCalls[b].result.val :
              (\A c \in Calls : (c > b /\ IsPatch(hookCalls[c].result))
                                    => f \notin DOMAIN hookCalls[c].result.val)
              => currentState[1][f] = hookCalls[b].result.val[f]

\* Two middlewares have set count to different values and invoke has returned
\* the state with the later one.
C4_Witness ==
    /\ pc = "done"
    /\ outcome.kind = "resolved"
    /\ Len(hookCalls) = 2
    /\ IsPatch(hookCalls[1].result)
    /\ IsPatch(hookCalls[2].result)
    /\ "count" \in DOMAIN hookCalls[1].result.val \cap DOMAIN hookCalls[2].result.val
    /\ hookCalls[1].result.val["count"] # hookCalls[2].result.val["count"]
    /\ outcome.state[1]["count"] = hookCalls[2].result.val["count"]

\* The patches returned by the hook calls below n, merged in call order.
RECURSIVE PatchesMerged(_, _)
PatchesMerged(state, n) ==
    IF n = 0 THEN state
    ELSE LET before == PatchesMerged(state, n - 1)
         IN  IF IsPatch(hookCalls[n].result)
             THEN [k \in DOMAIN before \cup DOMAIN hookCalls[n].result.val |->
                      IF k \in DOMAIN hookCalls[n].result.val
                      THEN hookCalls[n].result.val[k] ELSE before[k]]
             ELSE before

\* C5: within the before-phase, the state passed to a beforeModel hook is the
\* phase's starting state with the patches returned by the earlier hooks merged
\* in configured order.
C5_HookSeesEarlierPatches ==
    \A n \in Calls :
        /\ hookCalls[n].state = PatchesMerged(initialState[1], n - 1)
        /\ \A m \in 1..(n - 1) : hookCalls[m].middleware < hookCalls[n].middleware

\* A second hook has been called with a state that an earlier patch changed.
C5_Witness ==
    \E n \in Calls :
        /\ n >= 2
        /\ IsPatch(hookCalls[n - 1].result)
        /\ hookCalls[n].state # initialState[1]
        /\ hookCalls[n].state["count"] = hookCalls[n - 1].result.val["count"]

\* The context schemas of a configuration, the top-level one first.
SchemaList ==
    <<ContextSchemas[contextSchema]>> \o [k \in 1..Len(middlewares) |-> Mw(k).contextSchema]

\* The context field names that occur in more than one schema of the configuration.
DuplicateContextFields ==
    {f \in DOMAIN mergedContextSchema :
        \E a \in 1..Len(SchemaList) : \E b \in 1..Len(SchemaList) :
            /\ a < b
            /\ Len(SchemaList[a]) > 0 /\ f \in DOMAIN SchemaList[a][1]
            /\ Len(SchemaList[b]) > 0 /\ f \in DOMAIN SchemaList[b][1]}

\* C6: a configuration in which a context field name occurs in more than one
\* of the top-level and the middlewares' context schemas yields no agent:
\* createAgent fails, and no invocation of such an agent starts.
C6_DuplicateContextFieldRejected ==
    DuplicateContextFields # {} => pc = "created"

\* The required context fields (no default) the caller left out.
MissingRequired == {f \in DOMAIN mergedContextSchema :
                        f \notin DOMAIN args /\ ~mergedContextSchema[f].hasDefault}

\* C7: if the caller's context lacks a required field that has no default,
\* invoke fails with a validation error naming that field before any node
\* executes: no hook runs and the inference provider is never called.
C7_MissingRequiredContextFails ==
    (MissingRequired # {} /\ pc # "created")
    => /\ pc = "done"
       /\ outcome.kind = "rejected"
       /\ outcome.error[1].name = "ZodError"
       /\ MissingRequired \subseteq outcome.error[1].issues
       /\ hookCalls = <<>>
       /\ modelCalls = 0

\* The context fields with a default the caller left out.
Defaulted == {f \in DOMAIN mergedContextSchema :
                  f \notin DOMAIN args /\ mergedContextSchema[f].hasDefault}

C9_JumpToolsRunsToolExecutor ==
    (/\ pc = "done"
     /\ outcome.kind = "resolved"
     /\ Configured("afterModel", "jumpTools")
     /\ \A n \in Calls : ~IsControlAction(hookCalls[n].result))
    => /\ \E n \in Calls : hookCalls[n].hook = "afterModel"
       /\ toolRuns >= 1

\* C10: when a hook answers every entry of its node with retry (maxAttempts
\* omitted, default 3), the node is re-entered for the first three retries and
\* the fourth ends the invocation with a RetryExhausted failure: the hook has
\* run four times and the invocation has not returned a final state.
C10_RetryExhausted ==
    \A n \in Calls :
        (/\ IsAction(hookCalls[n].result, "retry")
         /\ FirstAction(n)
         /\ pc = "done")
        => /\ outcome.kind = "rejected"
           /\ outcome.error[1].name = "RetryExhausted"
           /\ Cardinality({m \in Calls : hookCalls[m].middleware = hookCalls[n].middleware}) = 4

\* C11: the first beforeModel hook that returns a jump or retry control action
\* ends the phase: no hook of a later middleware runs in that pass and the
\* inference provider is not invoked in that pass.
C11_JumpOrRetryStopsPhase ==
    \A n \in Calls :
        (IsAction(hookCalls[n].result, "jump") \/ IsAction(hookCalls[n].result, "retry"))
        => /\ \A m \in Calls : hookCalls[m].middleware <= hookCalls[n].middleware
           /\ modelCalls = 0

\* C12: when no hook of a MODEL visit returns a control action, the inference
\* response of that visit decides the next node: TOOLS if and only if it
\* carried a tool-call request, otherwise the invocation ends with the current
\* state as its outcome.  So an invocation that has ended with a final state
\* without any control action has had an inference response in its last visit,
\* that response (runtime.toolCalls) carried no tool call, and the outcome is
\* the current state.
C12_DefaultResolution ==
    (/\ pc = "done"
     /\ outcome.kind = "resolved"
     /\ \A n \in Calls : ~IsControlAction(hookCalls[n].result))
    => /\ modelCalls >= 1
       /\ runtime[1].toolCalls = <<>>
       /\ outcome.state[1] = currentState[1]

\* The middlewares (by position) whose stateSchema declares field f.
Declarers(f) ==
    {k \in 1..Len(middlewares) :
        Len(Mw(k).stateSchema) > 0 /\ f \in DOMAIN Mw(k).stateSchema[1]}

\* Every state field name some middleware declares.
StateFieldNames ==
    UNION {DOMAIN Mw(k).stateSchema[1] : k \in {j \in 1..Len(middlewares) : Len(Mw(j).stateSchema) > 0}}

\* The default of f in the schema of the last middleware that declares it.
LastDefault(f) ==
    LET declarers == Declarers(f)
        k == CHOOSE j \in declarers : \A i \in declarers : i <= j
    IN  Mw(k).stateSchema[1][f].default

\* C13: at the first hook call of an invocation, state is the merged middleware
\* defaults with messages set to exactly one user message carrying the invoke
\* message (replacing a default declared under the name messages), and
\* runtime.currentIteration was 0 when the loop was entered.
C13_FirstHookSeesDefaults ==
    /\ Len(hookCalls) >= 1 =>
          LET state == hookCalls[1].state
          IN  /\ DOMAIN state = StateFieldNames \cup {"messages"}
              /\ state["messages"] = <<[role |-> "user", content |-> Message]>>
              /\ \A f \in StateFieldNames \ {"messages"} : state[f] = LastDefault(f)
    /\ (pc = "loop" /\ idx = 1 /\ hookCalls = <<>>) => runtime[1].currentIteration = 0

\* A first hook call has been made in a configuration where a middleware
\* declares a default for messages and another state field exists.
C13_Witness ==
    /\ Len(hookCalls) >= 1
    /\ Declarers("messages") # {}
    /\ "count" \in DOMAIN hookCalls[1].state
    /\ Len(hookCalls[1].state["messages"]) = 1

\* C14: when two middlewares declare a state field of the same name, agent
\* construction succeeds (no invocation fails over the repeated name) and the
\* initial state holds the default of the later-declared middleware for that
\* field; the same later-wins rule decides the field at every patch merge.
C14_LaterDeclaredDefaultWins ==
    /\ Len(initialState) > 0 =>
          \A f \in StateFieldNames \ {"messages"} :
              Cardinality(Declarers(f)) >= 2 => initialState[1][f] = LastDefault(f)
    /\ outcome.kind = "rejected" => outcome.error[1].name \in {"ZodError", "TypeError"}
    /\ (Len(hookCalls) >= 1 /\ IsPatch(hookCalls[Len(hookCalls)].result)) =>
          \A f \in DOMAIN hookCalls[Len(hookCalls)].result.val :
              currentState[1][f] = hookCalls[Len(hookCalls)].result.val[f]

\* Two middlewares declare count with different defaults, the invocation has
\* started from the later one and has merged a patch of count.
C14_Witness ==
    /\ Cardinality(Declarers("count")) = 2
    /\ \E i \in Declarers("count") : Mw(i).stateSchema[1]["count"].default # LastDefault("count")
    /\ Len(initialState) > 0
    /\ initialState[1]["count"] = LastDefault("count")
    /\ pc = "done"
    /\ outcome.kind = "resolved"
    /\ outcome.state[1]["count"] # initialState[1]["count"]

\* C16: runtime.currentIteration observed by hooks equals the number of
\* MODEL-node entries made so far in the invocation; invoke makes one pass over
\* the hooks, the first MODEL visit, during which it is 1.
C16_IterationCountsModelEntries ==
    \A n \in Calls : hookCalls[n].runtime.currentIteration = 1

\* C18: every hook receives a controls value whose jumpTo, terminate and retry
\* return a control action of the matching kind carrying the given target and
\* patch, and calling them never makes the invocation fail: a hook evaluates to
\* what it evaluates to with the controls createControls() builds.
C18_ControlsAreUsable ==
    \A n \in Calls :
        LET call == hookCalls[n]
            expected == CallHook(Mw(call.middleware).beforeModel, call.state, call.runtime,
                                 createControls)
        IN  /\ call.result.ret = expected.ret
            /\ expected.ret = "value" => call.result.val = expected.val

\* The middleware at position k has no beforeModel hook, or its hook returns
\* nothing for the current state.
QuietHook(k) ==
    \/ Mw(k).beforeModel = "absent"
    \/ CallHook(Mw(k).beforeModel, currentState[1], runtime[1], invokeControls).ret = "undefined"

\* C19: a middleware without hook, or whose hook returns nothing, has no effect
\* on the run: its turn leaves state and the outcome as they are and the
\* pipeline continues with the next middleware.
C19_QuietMiddlewareNoEffect ==
    [][(pc = "loop" /\ idx <= Len(middlewares) /\ QuietHook(idx))
       => (/\ currentState' = currentState
           /\ outcome' = outcome
           /\ pc' = "loop"
           /\ idx' = idx + 1)]_vars

\* A middleware without beforeModel and one whose hook returns nothing have had
\* their turn, and invoke has returned the initial state.
C19_Witness ==
    /\ pc = "done"
    /\ outcome.kind = "resolved"
    /\ Len(middlewares) = 2
    /\ Mw(1).beforeModel = "absent"
    /\ Len(hookCalls) = 1
    /\ hookCalls[1].result.ret = "undefined"
    /\ outcome.state[1] = initialState[1]

\* C20: on each MODEL visit the prepareCall hooks run in declaration order,
\* each on the Prepared Call left by the earlier ones, and the inference
\* provider is invoked with the Prepared Call left by the last hook.  So when
\* an invocation with a prepareCall hook configured, whose hooks returned no
\* control action, has ended with a final state, every configured prepareCall
\* hook has been called, in declaration order, and the provider has been invoked.
C20_PrepareCallHooksRun ==
    (/\ pc = "done"
     /\ outcome.kind = "resolved"
     /\ \E k \in 1..Len(middlewares) : Mw(k).prepareCall # "absent"
     /\ \A n \in Calls : ~IsControlAction(hookCalls[n].result))
    => /\ \A k \in 1..Len(middlewares) :
              Mw(k).prepareCall # "absent"
              => \E n \in Calls : hookCalls[n].hook = "prepareCall" /\ hookCalls[n].middleware = k
       /\ \A a \in Calls : \A b \in Calls :
              (a < b /\ hookCalls[a].hook = "prepareCall" /\ hookCalls[b].hook = "prepareCall")
              => hookCalls[a].middleware < hookCalls[b].middleware
       /\ modelCalls >= 1

RECURSIVE CallsMerged(_, _, _)
CallsMerged(calls, state, n) ==
    IF n = 0 THEN state
    ELSE LET before == CallsMerged(calls, state, n - 1)
         IN  IF IsPatch(calls[n].result)
             THEN [k \in DOMAIN before \cup DOMAIN calls[n].result.val |->
                      IF k \in DOMAIN calls[n].result.val
                      THEN calls[n].result.val[k] ELSE before[k]]
             ELSE before

\* What an invocation has when it runs alone: every hook is called with the
\* invocation's own initial state and own earlier patches and with its own
\* runtime snapshot, and a resolved outcome is that state after its last patch.
RunsAsAlone(calls, initial, rt, result) ==
    /\ \A n \in 1..Len(calls) :
            /\ calls[n].state = CallsMerged(calls, initial[1], n - 1)
            /\ calls[n].runtime = rt[1]
            /\ calls[n].runtime.currentIteration = 0
            /\ calls[n].runtime.toolResults = <<>>
    /\ result.kind = "resolved" => result.state[1] = CallsMerged(calls, initial[1], Len(calls))

\* C17: for two invocations of the same agent whose steps interleave at the
\* await points, each invocation's state, runtime snapshot and final outcome
\* are those it has when run alone, and no patch or counter of one is
\* observable in the other: each runs as alone, their runtime snapshots are
\* equal, and at equal progress they have the same state, calls and outcome.
C17_InterleavedInvocationsIsolated ==
    /\ RunsAsAlone(hookCalls, initialState, runtime, outcome)
    /\ RunsAsAlone(second.hookCalls, second.initialState, second.runtime, second.outcome)
    /\ (Len(runtime) > 0 /\ Len(second.runtime) > 0) => second.runtime = runtime
    /\ (second.pc = pc /\ second.idx = idx) =>
            /\ second.currentState = currentState
            /\ second.hookCalls = hookCalls
            /\ second.outcome = outcome

\* The second invocation started between two hooks of the first, both have had
\* two hooks patch the same field, and both have resolved.
C17_Witness ==
    /\ second.startedAt.pc = "loop"
    /\ second.startedAt.idx = 2
    /\ Len(second.startedAt.state) > 0
    /\ second.startedAt.state[1] # initialState[1]
    /\ pc = "done" /\ outcome.kind = "resolved"
    /\ second.pc = "done" /\ second.outcome.kind = "resolved"
    /\ Len(hookCalls) = 2 /\ Len(second.hookCalls) = 2
    /\ \A n \in 1..2 : IsPatch(hookCalls[n].result) /\ IsPatch(second.hookCalls[n].result)
    /\ second.hookCalls[2].state # second.initialState[1]
    /\ second.outcome.state[1] # second.hookCalls[2].state
    /\ second.outcome = outcome

\* ---------------------------------------------------------------- C21
\* The hook calls of the given kind, by their position in the history.
CallsOf(hookName) == {n \in Calls : hookCalls[n].hook = hookName}

\* C21: what the prepareCall hooks change is not persistent: it reaches the
\* inference call of the MODEL visit the hooks ran in and nothing else, and the
\* prepareCall phase leaves state as it found it.  So when an invocation with a
\* prepareCall hook configured has made its pass without control action and has
\* ended with a final state, the hook has been called, the state handed to the
\* next hook called is the state the prepareCall hook was handed, and the
\* inference call its changes are for has been made.
C21_PrepareCallNotPersistent ==
    (/\ pc = "done"
     /\ outcome.kind = "resolved"
     /\ Configured("prepareCall", "middlewareC.prepareCall")
     /\ \A n \in Calls : ~IsControlAction(hookCalls[n].result))
    => /\ CallsOf("prepareCall") # {}
       /\ \A n \in CallsOf("prepareCall") :
              n < Len(hookCalls) => hookCalls[n + 1].state = hookCalls[n].state
       /\ modelCalls = Cardinality({hookCalls[n].runtime.currentIteration : n \in CallsOf("prepareCall")})

\* ---------------------------------------------------------------- C22
\* The last message of a state is an assistant message.
LastIsAssistant(state) ==
    /\ Len(state["messages"]) >= 1
    /\ state["messages"][Len(state["messages"])].role = "assistant"

\* C22: the afterModel hooks of a MODEL visit run after the inference call of
\* that visit, with the assistant message of the response already last in
\* state.messages; none runs before the response is recorded.  So when an
\* invocation with an afterModel hook configured has made its pass without
\* control action and has ended with a final state, the inference call has been
\* made, the afterModel hook has run, and every afterModel call saw an
\* assistant message last in state.messages.
C22_AfterModelSeesResponse ==
    (/\ pc = "done"
     /\ outcome.kind = "resolved"
     /\ \E k \in 1..Len(middlewares) : Mw(k).afterModel # "absent"
     /\ \A n \in Calls : ~IsControlAction(hookCalls[n].result))
    => /\ modelCalls >= 1
       /\ CallsOf("afterModel") # {}
       /\ \A n \in CallsOf("afterModel") : LastIsAssistant(hookCalls[n].state)

\* ---------------------------------------------------------------- C23
\* C23: resolving jump(target, patch) merges the patch into state and moves to
\* the target node, and the resolution step itself leaves currentIteration and
\* the retry counters as they were.  So right after a hook has returned the
\* first control action of the invocation, a jump carrying a patch, the state
\* is the state the hook saw with the patch merged over it, and
\* currentIteration is what the hook observed.
C23_JumpMergesPatchKeepsCounters ==
    \A n \in Calls :
        (/\ n = Len(hookCalls)
         /\ IsAction(hookCalls[n].result, "jump")
         /\ "stateUpdate" \in DOMAIN hookCalls[n].result.val
         /\ FirstAction(n))
        => /\ currentState[1] = Spread(hookCalls[n].state, hookCalls[n].result.val["stateUpdate"])
           /\ runtime[1].currentIteration = hookCalls[n].runtime.currentIteration

\* ---------------------------------------------------------------- C24
\* C24: a retry within maxAttempts merges its patch into state and re-enters
\* the retryFrom node (the node executing when retryFrom is omitted) without
\* incrementing currentIteration, with attempts counted per retryFrom node.
\* So right after a hook has returned the first control action of the
\* invocation, a first retry carrying a patch, the state is the state the hook
\* saw with the patch merged over it; and the hook call that follows is a call
\* of the re-entered node (not of a later middleware of the interrupted pass),
\* sees the patch and observes the same currentIteration.
C24_RetryMergesAndReenters ==
    \A n \in Calls :
        (/\ IsAction(hookCalls[n].result, "retry")
         /\ "stateUpdate" \in DOMAIN hookCalls[n].result.val
         /\ FirstAction(n))
        => LET patch == hookCalls[n].result.val["stateUpdate"]
           IN  /\ n = Len(hookCalls) => currentState[1] = Spread(hookCalls[n].state, patch)
               /\ n < Len(hookCalls) =>
                      /\ hookCalls[n + 1].middleware <= hookCalls[n].middleware
                      /\ hookCalls[n + 1].state = Spread(hookCalls[n].state, patch)
                      /\ hookCalls[n + 1].runtime.currentIteration
                            = hookCalls[n].runtime.currentIteration

\* ---------------------------------------------------------------- C26
\* C26: all hooks of one phase of one MODEL visit observe the same runtime
\* snapshot (toolCalls, toolResults, tokenUsage, context, currentIteration),
\* runtime.context is the same value in every hook call of the invocation, and
\* a snapshot handed to a hook is not changed afterwards: it still equals the
\* runtime of the invocation.
C26_HooksShareSnapshot ==
    \A n \in Calls :
        /\ \A m \in Calls : hookCalls[m].runtime = hookCalls[n].runtime
        /\ hookCalls[n].runtime.context = hookCalls[1].runtime.context
        /\ hookCalls[n].runtime = runtime[1]

\* Two hooks have run with a context that is not empty, the first has patched
\* state, and the invocation has returned.
C26_Witness ==
    /\ pc = "done"
    /\ outcome.kind = "resolved"
    /\ Len(hookCalls) = 2
    /\ IsPatch(hookCalls[1].result)
    /\ hookCalls[2].state # hookCalls[1].state
    /\ DOMAIN hookCalls[1].runtime.context # {}
    /\ hookCalls[2].runtime = hookCalls[1].runtime

\* ---------------------------------------------------------------- C27
\* C27: when a hook fails with an uncaught error, the invocation ends with that
\* failure at once: the failed call is the last hook call, it was made once,
\* the invocation is over with exactly that error and no final state.
C27_HookFailureEndsInvocation ==
    \A n \in Calls :
        hookCalls[n].result.ret = "throw"
        => /\ n = Len(hookCalls)
           /\ \A m \in Calls : hookCalls[m].middleware = hookCalls[n].middleware => m = n
           /\ pc = "done"
           /\ outcome.kind = "rejected"
           /\ outcome.error = Some(hookCalls[n].result.err)
           /\ outcome.state = undefined

\* The hook of the first of two middlewares has thrown; the second middleware
\* has a beforeModel hook, which was not called.
C27_Witness ==
    /\ Len(middlewares) = 2
    /\ Mw(2).beforeModel # "absent"
    /\ Len(hookCalls) = 1
    /\ hookCalls[1].middleware = 1
    /\ hookCalls[1].result.ret = "throw"
    /\ pc = "done"
    /\ outcome.kind = "rejected"

\* ---------------------------------------------------------------- C28
\* No patch returned by a hook call after a and before b sets field f.
NotSetBetween(f, a, b) ==
    \A c \in Calls : (a < c /\ c < b /\ IsPatch(hookCalls[c].result))
                          => f \notin DOMAIN hookCalls[c].result.val

HasRequestLimit ==
    /\ Configured("beforeModel", "modelRequestLimit.beforeModel")
    /\ Len(runtime) > 0
    /\ "maxRequests" \in DOMAIN runtime[1].context
    /\ runtime[1].context["maxRequests"] \in DOMAIN NumberOf

\* C29: with modelRequestLimitMiddleware configured and context.maxRequests = R,
\* state.modelRequestCount never exceeds R, the inference provider is called at
\* most R times, and the MODEL visit that would be request R + 1 (the hook is
\* called with modelRequestCount = R) ends the invocation normally, with a
\* final state in which modelRequestCount is still R.
C29_ModelRequestLimit ==
    HasRequestLimit =>
        LET R == NumberOf[runtime[1].context["maxRequests"]]
        IN  /\ Len(currentState) > 0 => currentState[1]["modelRequestCount"] <= R
            /\ modelCalls <= R
            /\ \A n \in Calls :
                  (/\ Mw(hookCalls[n].middleware).beforeModel = "modelRequestLimit.beforeModel"
                   /\ hookCalls[n].state["modelRequestCount"] = R)
                  => /\ pc = "done"
                     /\ outcome.kind = "resolved"
                     /\ outcome.state[1]["modelRequestCount"] = R

\* ---------------------------------------------------------------- C30
\* C30: with toolCallLimitMiddleware, for every entry (targetTool, maxCalls)
\* of context.toolCallLimitation, the invocation terminates in the afterModel
\* pass in which the cumulative number of model-issued calls to targetTool
\* reaches maxCalls, wherever those calls stand among the tool calls of a
\* response and whatever other limited tools are called: once the calls issued
\* to a limited tool have reached its maxCalls, the hook has terminated.
C30_ToolCallLimitTerminates ==
    \A i \in 1..Len(toolLimit.limitation) :
        toolLimit.issued[toolLimit.limitation[i].targetTool] >= toolLimit.limitation[i].maxCalls
        => toolLimit.terminated

\* ---------------------------------------------------------------- C31
\* The MODEL visits of the example agent entered with reflectionMode = mode.
VisitsIn(mode) ==
    {k \in 1..Len(example.visits) : example.visits[k].entry["reflectionMode"] = mode}

\* C31: with reflectionMiddleware enabled and context.reflection.maxIterations
\* = N (N >= 0), the loop performs exactly N reflector (critique) passes,
\* state.reflectionIteration never exceeds N, the invocation does not end
\* before reflectionMode is 'done', and a visit entered with reflectionMode
\* 'done' has afterModel return nothing, so the loop does not go back to MODEL.
C31_ReflectionPasses ==
    (example.name = "reflection" /\ ReflectionEnabled(example.context)) =>
        LET N == example.context["reflection"]["maxIterations"]
        IN  /\ example.state["reflectionIteration"] <= N
            /\ Cardinality(VisitsIn("reflector")) <= N
            /\ example.node = "TERMINATED" =>
                  /\ Cardinality(VisitsIn("reflector")) = N
                  /\ example.state["reflectionMode"] = "done"
            /\ \A k \in VisitsIn("done") :
                  /\ example.visits[k].result = Undefined
                  /\ k = Len(example.visits) => example.node = "TERMINATED"

\* ---------------------------------------------------------------- C32
\* The elements of a sequence.
Range(s) == {s[k] : k \in 1..Len(s)}

\* C32: in reflectionMiddleware, the model call made after reflectionMode is
\* set to 'done' (the final generation) is prepared with a system message that
\* contains every reflection accumulated in state.reflections.
C32_FinalCallCarriesReflections ==
    example.name = "reflection" =>
        \A k \in VisitsIn("done") :
            Range(example.visits[k].entry["reflections"])
                \subseteq Range(SystemMessageOf(example.visits[k].prepared))

\* ---------------------------------------------------------------- C33
\* The MODEL visits in which the hook issued a retry for tool call id.
RetriesFor(id) ==
    {k \in 1..Len(example.visits) :
        /\ IsAction(example.visits[k].result, "retry")
        /\ example.visits[k].result.val["stateUpdate"]["retryState"].toolCallId = id}

\* C33: with trustcallMiddleware and context.maxRetries = R, the middleware
\* issues no more than R retry actions for one tool call; when the patched
\* arguments keep failing until the middleware gives up, the retries made for
\* the call number R; and the engine does not end the invocation with
\* RetryExhausted while state.retryState.currentAttempt is below R.
C33_TrustcallRetries ==
    example.name = "trustcall" =>
        LET R == example.context["maxRetries"]
        IN  /\ \A id \in 1..Len(example.toolCalls) : Cardinality(RetriesFor(id)) <= R
            /\ \A k \in 1..Len(example.visits) :
                  (/\ example.visits[k].entry["retryState"].isRetrying
                   /\ example.visits[k].response.message.content = "[keep]"
                   /\ ~IsAction(example.visits[k].result, "retry"))
                  => Cardinality(RetriesFor(example.visits[k].entry["retryState"].toolCallId)) = R
            /\ (example.outcome.kind = "rejected" /\ example.outcome.error[1].name = "RetryExhausted")
                  => example.state["retryState"].currentAttempt >= R

\* ---------------------------------------------------------------- C34
\* content is what substring(0, n) leaves of original for some n.
IsPrefix(content, original) ==
    /\ Len(content) <= Len(original)
    /\ content = SubSeq(original, 1, Len(content))

C35_SwarmHandoffs ==
    example.name = "swarm" =>
        LET handoffHistory == example.state["handoffHistory"]
        IN  /\ Len(handoffHistory) <= example.context["maxHandoffs"]
            /\ \A i \in 1..Len(handoffHistory) :
                  handoffHistory[i].to \in CanHandoffTo(handoffHistory[i].from)
            /\ example.state["currentAgent"] =
                  IF Len(handoffHistory) = 0 THEN "coordinator"
                  ELSE handoffHistory[Len(handoffHistory)].to

\* The history is full after handoffs from two different agents, a handoff
\* that is not allowed was refused on the way or the one beyond the limit has
\* terminated the invocation.
C35_Witness ==
    /\ example.name = "swarm"
    /\ example.context["maxHandoffs"] >= 2
    /\ Len(example.state["handoffHistory"]) = example.context["maxHandoffs"]
    /\ example.state["handoffHistory"][1].from # example.state["handoffHistory"][2].from
    /\ example.node = "TERMINATED"
    /\ IsAction(example.visits[Len(example.visits)].result, "terminate")
    /\ example.outcome.kind = "resolved"
    /\ example.outcome.state[1]["currentAgent"] = example.state["handoffHistory"][2].to

\* ---------------------------------------------------------------- C36
\* Steps of invoke left before its promise settles: the start, one per
\* middleware not yet visited, and the return.
StepsLeft ==
    CASE pc = "created" -> Len(middlewares) + 2
      [] pc = "loop" -> Len(middlewares) + 2 - idx
      [] pc = "done" -> 0

\* The hook calls made so far are beforeModel calls of distinct middlewares in
\* configured order.
InConfiguredOrder(calls) ==
    /\ \A n \in 1..Len(calls) : calls[n].hook = "beforeModel"
    /\ \A a, b \in 1..Len(calls) : a < b => calls[a].middleware < calls[b].middleware

ControlActionKeys == {"type", "target", "stateUpdate", "result", "error"}

C38_MergeKeepsOtherFields ==
    [][(Len(hookCalls') > Len(hookCalls) /\ IsPatch(hookCalls'[Len(hookCalls')].result)) =>
          \A f \in DOMAIN currentState[1] \ DOMAIN hookCalls'[Len(hookCalls')].result.val :
              /\ f \in DOMAIN currentState'[1]
              /\ currentState'[1][f] = currentState[1][f]]_vars

\* A patch that names neither messages nor some other field of the state was
\* merged: the state of the next call differs from the one the patch was
\* merged into, in the fields of the patch only.
C38_Witness ==
    \E a \in Calls :
        /\ a + 1 \in Calls
        /\ IsPatch(hookCalls[a].result)
        /\ "messages" \notin DOMAIN hookCalls[a].result.val
        /\ Cardinality(DOMAIN hookCalls[a].state \ DOMAIN hookCalls[a].result.val) >= 2
        /\ hookCalls[a + 1].state # hookCalls[a].state
        /\ hookCalls[a + 1].state["messages"] = hookCalls[a].state["messages"]
        /\ Len(hookCalls[a].state["messages"]) > 0

====
